---- MODULE Spec2Model ----
(***************************************************************************)
(* A model of scripts/yunyi_tap_proxy.py: one relay (TapProxyHandler.      *)
(* _forward) of one inbound request, from reading the request body to      *)
(* closing the upstream connection, with the client and the upstream as    *)
(* the environment; and, around it, main with its start-up checks, the     *)
(* server layer that reads the requests of a persistent connection one     *)
(* after the other, and the relay of a second connection.                  *)
(*                                                                         *)
(* Text is modelled as tuples of one-character strings, so that            *)
(* str.lower() and int() are computed character by character.  Header      *)
(* collections are sequences of [name, value] records in wire order.       *)
(* A Python dict is a sequence of [name, value] records with unique names  *)
(* in insertion order.                                                     *)
(***************************************************************************)
EXTENDS Integers, Sequences, FiniteSets, TLC

----------------------------------------------------------------------------
(* Bounds of the model. *)

\* Most header lines in an inbound request (rich header domain).
MaxHeaders == 2
\* Most header lines in an upstream response.
MaxRespHeaders == 2
\* The upstream body is at most MaxChunks full chunks plus one byte.
MaxChunks == 2
\* Most short reads (fewer bytes than asked for) in one relay.
MaxShortReads == 1
\* Most bytes a client sends after the header block of one request.
MaxReqBody == 2
\* Most requests a client sends on one connection.
MaxRequests == 2

----------------------------------------------------------------------------
(* Text. *)

UpperLetters ==
    <<"A","B","C","D","E","F","G","H","I","J","K","L","M",
      "N","O","P","Q","R","S","T","U","V","W","X","Y","Z">>

LowerLetters ==
    <<"a","b","c","d","e","f","g","h","i","j","k","l","m",
      "n","o","p","q","r","s","t","u","v","w","x","y","z">>

\* str.lower() on one character.
LowerChar(c) ==
    IF \E i \in DOMAIN UpperLetters : UpperLetters[i] = c
    THEN LowerLetters[CHOOSE i \in DOMAIN UpperLetters : UpperLetters[i] = c]
    ELSE c

\* str.lower()
Lower(s) == [i \in DOMAIN s |-> LowerChar(s[i])]

----------------------------------------------------------------------------
(* Program constants. *)

\* resp.read(8192)
ChunkSize == 8192

\* SENSITIVE_HEADERS
SENSITIVE_HEADERS ==
    { <<"a","u","t","h","o","r","i","z","a","t","i","o","n">>,
      <<"c","o","o","k","i","e">>,
      <<"s","e","t","-","c","o","o","k","i","e">> }

\* The marker _redact_header returns.
REDACTED == <<"[","R","E","D","A","C","T","E","D","]">>

\* hop_by_hop
hop_by_hop ==
    { <<"c","o","n","n","e","c","t","i","o","n">>,
      <<"k","e","e","p","-","a","l","i","v","e">>,
      <<"p","r","o","x","y","-","a","u","t","h","e","n","t","i","c","a","t","e">>,
      <<"p","r","o","x","y","-","a","u","t","h","o","r","i","z","a","t","i","o","n">>,
      <<"t","e">>,
      <<"t","r","a","i","l","e","r","s">>,
      <<"t","r","a","n","s","f","e","r","-","e","n","c","o","d","i","n","g">>,
      <<"u","p","g","r","a","d","e">> }

\* "host", the name the copy loop skips.
HostLower == <<"h","o","s","t">>

\* "Host", the key _forward sets last.
HostKey == <<"H","o","s","t">>

\* "transfer-encoding", the response header _forward does not copy.
TransferEncodingLower ==
    <<"t","r","a","n","s","f","e","r","-","e","n","c","o","d","i","n","g">>

\* "Content-Length", the header _read_body asks for.
ContentLengthKey == <<"C","o","n","t","e","n","t","-","L","e","n","g","t","h">>

----------------------------------------------------------------------------
(* _redact_header *)

\* A redaction that compares the name as written, without lower().
RedactHeaderCaseSensitive(name, value) ==
    IF name \in SENSITIVE_HEADERS THEN REDACTED ELSE value

RedactHeader(name, value) ==
    IF Lower(name) \in SENSITIVE_HEADERS THEN REDACTED ELSE value

----------------------------------------------------------------------------
(* _try_pretty_json, on bodies over the bytes "1", " ", "x" and "FF" (a byte *)
(* that is not valid UTF-8).  Over these bytes a body is a JSON document   *)
(* exactly when, with the surrounding whitespace removed, it is a          *)
(* non-empty run of the digit 1; json.dumps renders that number as the     *)
(* same digits.                                                            *)

BodyBytes == {"1", " ", "x", "FF"}

RECURSIVE StripLeft(_)
StripLeft(s) ==
    IF s # <<>> /\ Head(s) = " " THEN StripLeft(Tail(s)) ELSE s

RECURSIVE StripRight(_)
StripRight(s) ==
    IF s # <<>> /\ s[Len(s)] = " "
    THEN StripRight(SubSeq(s, 1, Len(s) - 1))
    ELSE s

\* raw.decode("utf-8") succeeds
IsUtf8(raw) == \A i \in DOMAIN raw : raw[i] # "FF"

\* json.loads succeeds
IsJson(raw) ==
    LET t == StripRight(StripLeft(raw))
    IN  IsUtf8(raw) /\ t # <<>> /\ \A i \in DOMAIN t : t[i] = "1"

\* raw.decode("utf-8", "replace"): U+FFFD for each invalid byte
DecodeReplace(raw) ==
    [i \in DOMAIN raw |-> IF raw[i] = "FF" THEN "U+FFFD" ELSE raw[i]]

TryPrettyJson(raw) ==
    IF IsJson(raw) THEN StripRight(StripLeft(raw)) ELSE DecodeReplace(raw)

----------------------------------------------------------------------------
(* _read_body: headers.get and int() *)

\* self.headers.get(key): the value of the first header whose name matches
\* key without regard to case, or None.
HeadersGet(hs, key) ==
    LET hits == {i \in DOMAIN hs : Lower(hs[i].name) = Lower(key)}
    IN  IF hits = {}
        THEN [found |-> FALSE, value |-> <<>>]
        ELSE [found |-> TRUE,
              value |-> hs[CHOOSE i \in hits : \A j \in hits : i <= j].value]

ConnectionKey == <<"C","o","n","n","e","c","t","i","o","n">>

CloseWord == <<"c","l","o","s","e">>

KeepAliveWord == <<"k","e","e","p","-","a","l","i","v","e">>

\* close_connection as the handler base class sets it when it has parsed an
\* HTTP/1.1 request under protocol_version = "HTTP/1.1": the connection is
\* kept unless the request says Connection: close.
CloseAfterParse(hs) ==
    LET c == HeadersGet(hs, ConnectionKey)
    IN  c.found /\ Lower(c.value) = CloseWord

Digits == <<"0","1","2","3","4","5","6","7","8","9">>

IsDigit(c) == \E i \in DOMAIN Digits : Digits[i] = c

DigitVal(c) == (CHOOSE i \in DOMAIN Digits : Digits[i] = c) - 1

RECURSIVE DigitsValue(_)
DigitsValue(s) ==
    IF s = <<>> THEN 0
    ELSE DigitsValue(SubSeq(s, 1, Len(s) - 1)) * 10 + DigitVal(s[Len(s)])

AllDigits(s) == s # <<>> /\ \A i \in DOMAIN s : IsDigit(s[i])

\* int(length), for text over digits, signs and letters: an optional sign
\* and then one or more digits; anything else raises ValueError.
ParseInt(s) ==
    IF s # <<>> /\ Head(s) = "-" /\ AllDigits(Tail(s))
    THEN [ok |-> TRUE, n |-> 0 - DigitsValue(Tail(s))]
    ELSE IF s # <<>> /\ Head(s) = "+" /\ AllDigits(Tail(s))
    THEN [ok |-> TRUE, n |-> DigitsValue(Tail(s))]
    ELSE IF AllDigits(s)
    THEN [ok |-> TRUE, n |-> DigitsValue(s)]
    ELSE [ok |-> FALSE, n |-> 0]

----------------------------------------------------------------------------
(* The header copy of _forward. *)

\* lk that keeps the name as written
HeaderKeyRaw(k) == k

\* lk = k.lower()
HeaderKey(k) == Lower(k)

IsHopByHop(lk) == lk \in hop_by_hop

\* A test for the key "Host" as _forward writes it, not for "host".
IsHostAsWritten(lk) == lk = HostKey

\* lk == "host"
IsHost(lk) == lk = HostLower

\* d[k] = v on a dict: the value of an existing key is replaced where it
\* stands, a new key goes last.
DictSet(d, k, v) ==
    IF \E i \in DOMAIN d : d[i].name = k
    THEN [i \in DOMAIN d |->
            IF d[i].name = k THEN [name |-> k, value |-> v] ELSE d[i]]
    ELSE Append(d, [name |-> k, value |-> v])

\* for k, v in self.headers.items(): ... forward_headers[k] = v
RECURSIVE CopyHeaders(_, _)
CopyHeaders(hs, d) ==
    IF hs = <<>> THEN d
    ELSE LET k  == Head(hs).name
             v  == Head(hs).value
             lk == HeaderKey(k)
         IN  IF IsHopByHop(lk) \/ IsHost(lk)
             THEN CopyHeaders(Tail(hs), d)
             ELSE CopyHeaders(Tail(hs), DictSet(d, k, v))

\* forward_headers, as passed to conn.request
ForwardHeaders(hs, host) == DictSet(CopyHeaders(hs, <<>>), HostKey, host)

\* The copy loop and the Host assignment, run on the dict d.
ForwardHeadersFrom(d, hs, host) == DictSet(CopyHeaders(hs, d), HostKey, host)

----------------------------------------------------------------------------
(* The response header copy of _forward. *)

\* A test of the name as received, without lower().
IsTransferEncodingAsReceived(k) == k = TransferEncodingLower

\* k.lower() == "transfer-encoding"
IsTransferEncoding(k) == Lower(k) = TransferEncodingLower

\* for k, v in resp_headers: ... self.send_header(k, v)
RECURSIVE CopyRespHeaders(_)
CopyRespHeaders(hs) ==
    IF hs = <<>> THEN <<>>
    ELSE IF IsTransferEncoding(Head(hs).name)
         THEN CopyRespHeaders(Tail(hs))
         ELSE <<Head(hs)>> \o CopyRespHeaders(Tail(hs))

----------------------------------------------------------------------------
(* The inputs: inbound requests and upstream responses. *)

Hdr(n, v) == [name |-> n, value |-> v]

\* All sequences over S of length at most n.
SeqsUpTo(S, n) == UNION {[1..k -> S] : k \in 0..n}

\* Header values: opaque text, distinct from the redaction marker.
Values == {<<"a">>, <<"b">>}

\* Inbound header lines: Host in two casings, each hop-by-hop name, the
\* sensitive names in several casings, and a plain header; Cookie and X-A
\* with two values each, so that a name can repeat with another value.
InboundHeaders ==
    { Hdr(<<"H","o","s","t">>, <<"a">>),
      Hdr(<<"H","O","S","T">>, <<"a">>),
      Hdr(<<"C","o","n","n","e","c","t","i","o","n">>, <<"a">>),
      Hdr(<<"K","E","E","P","-","A","L","I","V","E">>, <<"a">>),
      Hdr(<<"P","r","o","x","y","-","A","u","t","h","e","n","t","i","c","a","t","e">>, <<"a">>),
      Hdr(<<"p","r","o","x","y","-","a","u","t","h","o","r","i","z","a","t","i","o","n">>, <<"a">>),
      Hdr(<<"T","E">>, <<"a">>),
      Hdr(<<"T","r","a","i","l","e","r","s">>, <<"a">>),
      Hdr(<<"T","r","a","n","s","f","e","r","-","E","n","c","o","d","i","n","g">>, <<"a">>),
      Hdr(<<"U","P","G","R","A","D","E">>, <<"a">>),
      Hdr(<<"A","u","t","h","o","r","i","z","a","t","i","o","n">>, <<"a">>),
      Hdr(<<"C","O","O","K","I","E">>, <<"a">>),
      Hdr(<<"S","e","t","-","C","o","o","k","i","e">>, <<"a">>) }
    \cup { Hdr(<<"C","o","o","k","i","e">>, v) : v \in Values }
    \cup { Hdr(<<"X","-","A">>, v) : v \in Values }

Req(c, hs, bytes) == [command |-> c, headers |-> hs, rfile |-> bytes]

\* Requests with every header list of at most MaxHeaders lines, no body.
HeaderRequests ==
    { Req("POST", hs, <<>>) : hs \in SeqsUpTo(InboundHeaders, MaxHeaders) }

\* A few whole requests: a GET without a body, POSTs whose Content-Length
\* is exact, malformed, negative, or larger than what the client sends.
SampleRequests ==
    { Req("GET", <<Hdr(<<"H","o","s","t">>, <<"a">>)>>, <<>>),
      Req("POST", <<Hdr(<<"C","o","o","k","i","e">>, <<"a">>),
                    Hdr(ContentLengthKey, <<"2">>)>>, <<" ", "1">>),
      Req("POST", <<Hdr(<<"c","o","n","t","e","n","t","-","l","e","n","g","t","h">>,
                        <<"x">>)>>, <<"x", "FF">>),
      Req("POST", <<Hdr(ContentLengthKey, <<"-","1">>)>>, <<"1">>),
      Req("POST", <<Hdr(ContentLengthKey, <<"2">>)>>, <<"x">>) }

\* The configured upstream host (TapProxyHandler.upstream_host after main).
UpstreamHosts == {<<"u">>}

Paths == {<<"/","v","1">>}

\* Upstream response header lines.
RespHeaders ==
    { Hdr(<<"T","r","a","n","s","f","e","r","-","E","n","c","o","d","i","n","g">>,
          <<"c","h","u","n","k","e","d">>),
      Hdr(<<"t","r","a","n","s","f","e","r","-","e","n","c","o","d","i","n","g">>,
          <<"c","h","u","n","k","e","d">>),
      Hdr(<<"C","o","n","t","e","n","t","-","T","y","p","e">>, <<"a">>) }
    \cup { Hdr(<<"S","e","t","-","C","o","o","k","i","e">>, v) : v \in Values }

StatusLines == { [status |-> 200, reason |-> "OK"],
                 [status |-> 404, reason |-> "Not Found"] }

\* Upstream body lengths: whole chunks, and whole chunks plus one byte.
BodyLens == { k * ChunkSize + d : k \in 0..MaxChunks, d \in {0, 1} }

Resp(st, hs, n) == [line |-> st, headers |-> hs, len |-> n]

\* Responses for the streaming loop: both status lines, without and with
\* Transfer-Encoding, every body length.
Responses ==
    { Resp(st, hs, n) :
        st \in StatusLines,
        hs \in { <<>>,
                 <<Hdr(<<"T","r","a","n","s","f","e","r","-","E","n","c","o","d","i","n","g">>,
                       <<"c","h","u","n","k","e","d">>)>> },
        n \in BodyLens }

\* Responses with every header list of at most MaxRespHeaders lines, and a
\* body a little longer than one chunk.
HeaderResponses ==
    { Resp([status |-> 200, reason |-> "OK"], hs, ChunkSize + 1) :
        hs \in SeqsUpTo(RespHeaders, MaxRespHeaders) }

\* One response with a body of one byte.
FewResponses ==
    { Resp([status |-> 200, reason |-> "OK"],
           <<Hdr(<<"C","o","n","t","e","n","t","-","T","y","p","e">>, <<"a">>)>>,
           1) }

\* One request: a POST with a cookie and a body of two bytes.
FewRequests ==
    { Req("POST", <<Hdr(<<"C","o","o","k","i","e">>, <<"a">>),
                    Hdr(ContentLengthKey, <<"2">>)>>, <<" ", "1">>) }

\* Requests that leave the connection persistent, by default or by asking
\* for it, and one that asks to close it.
FrameRequests ==
    FewRequests
    \cup { Req("GET", <<Hdr(ConnectionKey, <<"c","l","o","s","e">>)>>, <<>>),
           Req("GET", <<Hdr(ConnectionKey, <<"K","e","e","p","-","A","l","i","v","e">>)>>,
               <<>>) }

\* Upstream response header lines that bear on framing.
FrameRespHeaders ==
    { Hdr(<<"T","r","a","n","s","f","e","r","-","E","n","c","o","d","i","n","g">>,
          <<"c","h","u","n","k","e","d">>),
      Hdr(ContentLengthKey, <<"1">>),
      Hdr(ConnectionKey, <<"c","l","o","s","e">>),
      Hdr(<<"c","o","n","n","e","c","t","i","o","n">>,
          <<"K","e","e","p","-","A","l","i","v","e">>),
      Hdr(<<"C","o","n","t","e","n","t","-","T","y","p","e">>, <<"a">>) }

\* Responses with a body of one byte and every list of at most
\* MaxRespHeaders framing header lines.
FrameResponses ==
    { Resp([status |-> 200, reason |-> "OK"], hs, 1) :
        hs \in SeqsUpTo(FrameRespHeaders, MaxRespHeaders) }

\* The Content-Length lines a request may carry: none, an empty value, zero,
\* exact lengths, a value that is no number, a negative number.
LengthLines ==
    { <<>> }
    \cup { <<Hdr(ContentLengthKey, v)>> :
             v \in { <<>>, <<"0">>, <<"1">>, <<"2">>, <<"x">>, <<"-","1">> } }
    \cup { <<Hdr(<<"c","o","n","t","e","n","t","-","l","e","n","g","t","h">>, v)>> :
             v \in { <<"0">>, <<"1","x">> } }

\* Requests with every Content-Length line and every run of at most
\* MaxReqBody bytes sent after the header block.
BodyRequests ==
    { Req("POST", hs, bytes) :
        hs \in LengthLines, bytes \in SeqsUpTo(BodyBytes, MaxReqBody) }

----------------------------------------------------------------------------
(* The inputs of main and of the server. *)

\* The port of a parsed URL: none given, a number, or one that urlparse
\* rejects when asked for it (ValueError).
NoPort == [kind |-> "none", n |-> 0]

PortNum(n) == [kind |-> "num", n |-> n]

BadPort == [kind |-> "invalid", n |-> 0]

\* urlparse(args.upstream): scheme, hostname (empty for None) and port.
Url(s, h, p) == [scheme |-> s, hostname |-> h, port |-> p]

ParsedUrls ==
    { Url("https", <<"u">>, NoPort),
      Url("https", <<"u">>, PortNum(8443)),
      Url("https", <<"u">>, PortNum(0)),
      Url("https", <<"u">>, BadPort),
      Url("https", <<>>, NoPort),
      Url("http", <<"u">>, NoPort),
      Url("http", <<>>, PortNum(8443)),
      Url("", <<>>, NoPort) }

\* --port, by default
ListenPort == 18080

\* u.port or 443
DefaultPort == 443

\* The address the listener binds.
BindAddress == "127.0.0.1"

\* A scheme check that lets every scheme pass.
SchemeOkAny(sch) == TRUE

\* u.scheme != "https" is the error
SchemeOk(sch) == sch = "https"

\* port = u.port or 443
PortOr(p, d) == IF p.kind = "num" /\ p.n # 0 THEN p.n ELSE d

NoListener == [host |-> "", port |-> 0]

\* The requests a client sends on a persistent connection: a GET, a POST
\* with an exact Content-Length, a POST whose body is sent chunked, without
\* a Content-Length, and a GET that asks to close the connection.
ServerRequests ==
    { Req("GET", <<Hdr(<<"X","-","A">>, <<"a">>)>>, <<>>),
      Req("POST", <<Hdr(ContentLengthKey, <<"1">>)>>, <<"1">>),
      Req("POST", <<Hdr(<<"T","r","a","n","s","f","e","r","-","E","n","c","o","d","i","n","g">>,
                        <<"c","h","u","n","k","e","d">>)>>, <<"1">>),
      Req("GET", <<Hdr(ConnectionKey, <<"c","l","o","s","e">>)>>, <<>>) }

\* One framed response with a body of one byte.
ServerResponses ==
    { Resp([status |-> 200, reason |-> "OK"],
           <<Hdr(ContentLengthKey, <<"1">>)>>, 1) }

\* The header list of the request on the second connection.
OtherRequests == { <<Hdr(<<"X","-","B">>, <<"b">>)>> }

\* The relay on a second connection before the connection is accepted.
IdleOther == [pc |-> "idle", headers |-> <<>>, forward_headers |-> <<>>,
              conn |-> "none", status |-> 0]

----------------------------------------------------------------------------
(* The state: main, one connection with its relay statement by statement,  *)
(* and a second connection with its relay in larger steps.                 *)

VARIABLES
    pc,               \* the statement of _forward about to run, "done" after
                      \* it returned, "raised" after an exception left it
    command,          \* self.command
    path,             \* self.path
    headers,          \* self.headers, in wire order
    rfile,            \* bytes the client sent after the header block, unread
    clientOpen,       \* the client still holds its connection
    upstream_host,    \* TapProxyHandler.upstream_host
    body,             \* the local body
    log,              \* what was written to sys.stderr, line by line
    conn,             \* the upstream connection: "none", "created", "open", "closed"
    forward_headers,  \* the dict forward_headers
    upstreamReqs,     \* the requests issued with conn.request
    resp,             \* the upstream response: status line and headers
    upRemaining,      \* bytes of the upstream body not yet read
    clientStatus,     \* the status line given to send_response
    clientHdrs,       \* the header lines given to the client-facing response
    headersSent,      \* end_headers wrote the header block to the client
    chunk,            \* the local chunk
    readSeq,          \* the non-empty chunks resp.read returned, in order
    written,          \* the chunks self.wfile.write accepted, in order
    flushed,          \* how many written chunks a flush has pushed out
    shortReads,       \* short reads so far
    loopExit,         \* why the streaming loop ended: "none", "eof",
                      \* "client_disconnect", "upstream_error"
    exc,              \* the exception that left _forward, or "none"
    events,           \* the externally visible steps so far, in order
    close_connection, \* self.close_connection: the server layer closes the
                      \* client connection once the handler returns
    mainPc,           \* the statement of main about to run, "serve" inside
                      \* serve_forever, "exited" after the process ended
    args,             \* args.port, and urlparse(args.upstream) as upstream
    main_host,        \* the local host of main
    main_port,        \* the local port of main
    listener,         \* the address httpd is bound to, or NoListener
    exitCode,         \* the exit status once main has exited
    upstream_port,    \* TapProxyHandler.upstream_port
    reqCount,         \* requests the server layer has read on the connection
    clientSent,       \* the requests the client has sent on it, in order
    relayed,          \* the requests _forward was called for, by number
    connCount,        \* HTTPSConnection objects the connection's relays made
    other             \* the relay on the second connection

vars == <<pc, command, path, headers, rfile, clientOpen, upstream_host, body,
          log, conn, forward_headers, upstreamReqs, resp, upRemaining,
          clientStatus, clientHdrs, headersSent, chunk, readSeq, written,
          flushed, shortReads, loopExit, exc, events, close_connection,
          mainPc, args, main_host, main_port, listener, exitCode,
          upstream_port, reqCount, clientSent, relayed, connCount, other>>

\* The state of main and of the listener.
srvVars == <<mainPc, args, main_host, main_port, listener, exitCode,
             upstream_port>>

\* The history of the connection.
connVars == <<reqCount, clientSent, relayed>>

\* What a relay is given and leaves as it is.
reqVars == <<command, path, headers, upstream_host, srvVars, connVars, other>>

relayVars == <<clientStatus, clientHdrs, headersSent, chunk, readSeq, written,
               flushed, shortReads, loopExit>>

NoResp == [line |-> [status |-> 0, reason |-> ""], headers |-> <<>>]

NoChunk == [off |-> 0, len |-> 0]

Min(a, b) == IF a <= b THEN a ELSE b

\* A statement order with the log trace written after conn.request.
NextPcLogAfterRequest(p) ==
    CASE p = "read_body"     -> "connect"
      [] p = "connect"       -> "build_headers"
      [] p = "build_headers" -> "request"
      [] p = "request"       -> "log"
      [] p = "log"           -> "getresponse"
      [] p = "getresponse"   -> "send_response"
      [] p = "send_response" -> "send_headers"
      [] p = "send_headers"  -> "end_headers"
      [] p = "end_headers"   -> "read"
      [] p = "read"          -> "write"
      [] p = "write"         -> "flush"
      [] p = "flush"         -> "read"
      [] p = "close"         -> "done"

\* A statement order that sends the response head before the upstream
\* exchange.
NextPcRespondFirst(p) ==
    CASE p = "read_body"     -> "log"
      [] p = "log"           -> "connect"
      [] p = "connect"       -> "build_headers"
      [] p = "build_headers" -> "send_response"
      [] p = "send_response" -> "send_headers"
      [] p = "send_headers"  -> "end_headers"
      [] p = "end_headers"   -> "request"
      [] p = "request"       -> "getresponse"
      [] p = "getresponse"   -> "read"
      [] p = "read"          -> "write"
      [] p = "write"         -> "flush"
      [] p = "flush"         -> "read"
      [] p = "close"         -> "done"

\* A statement order whose loop reads again without flushing.
NextPcNoFlush(p) ==
    CASE p = "read_body"     -> "log"
      [] p = "log"           -> "connect"
      [] p = "connect"       -> "build_headers"
      [] p = "build_headers" -> "request"
      [] p = "request"       -> "getresponse"
      [] p = "getresponse"   -> "send_response"
      [] p = "send_response" -> "send_headers"
      [] p = "send_headers"  -> "end_headers"
      [] p = "end_headers"   -> "read"
      [] p = "read"          -> "write"
      [] p = "write"         -> "read"
      [] p = "flush"         -> "read"
      [] p = "close"         -> "done"

\* The statement after p in _forward; the last statement of the loop body
\* is followed by the loop's first.
NextPc(p) ==
    CASE p = "read_body"     -> "log"
      [] p = "log"           -> "connect"
      [] p = "connect"       -> "build_headers"
      [] p = "build_headers" -> "request"
      [] p = "request"       -> "getresponse"
      [] p = "getresponse"   -> "send_response"
      [] p = "send_response" -> "send_headers"
      [] p = "send_headers"  -> "end_headers"
      [] p = "end_headers"   -> "read"
      [] p = "read"          -> "write"
      [] p = "write"         -> "flush"
      [] p = "flush"         -> "read"
      [] p = "close"         -> "done"

\* A break that goes back to the head of the loop.
AfterLoopRead == "read"

\* Where break leaves the loop to.
AfterLoop == "close"

InitWith(Reqs) ==
    /\ \E r \in Reqs :
          /\ command = r.command
          /\ headers = r.headers
          /\ rfile = r.rfile
    /\ path \in Paths
    /\ upstream_host \in UpstreamHosts
    /\ pc = "read_body"
    /\ clientOpen = TRUE
    /\ body = <<>>
    /\ log = <<>>
    /\ conn = "none"
    /\ forward_headers = <<>>
    /\ upstreamReqs = <<>>
    /\ resp = NoResp
    /\ upRemaining = 0
    /\ clientStatus = NoResp.line
    /\ clientHdrs = <<>>
    /\ headersSent = FALSE
    /\ chunk = NoChunk
    /\ readSeq = <<>>
    /\ written = <<>>
    /\ flushed = 0
    /\ shortReads = 0
    /\ loopExit = "none"
    /\ exc = "none"
    /\ events = <<>>
    /\ close_connection = CloseAfterParse(headers)
    /\ mainPc = "serve"
    /\ args = [port |-> ListenPort,
               upstream |-> Url("https", upstream_host, NoPort)]
    /\ main_host = upstream_host
    /\ main_port = DefaultPort
    /\ upstream_port = DefaultPort
    /\ listener = [host |-> BindAddress, port |-> ListenPort]
    /\ exitCode = 0
    /\ reqCount = 1
    /\ clientSent = <<Req(command, headers, rfile)>>
    /\ relayed = <<1>>
    /\ connCount = 0
    /\ other = IdleOther

Init == InitWith(SampleRequests)

InitHdr == InitWith(HeaderRequests)

InitResp == InitWith(FewRequests)

InitBody == InitWith(BodyRequests)

InitFrame == InitWith(FrameRequests)

----------------------------------------------------------------------------
(* _read_body *)

\* What _read_body returns and what it leaves in rfile, or that it blocks:
\* rfile.read(n) returns once n bytes are there or the client is gone, and
\* rfile.read of a negative n returns at end of stream only.
ReadBodyResult(hs, bytes, open) ==
    LET length == HeadersGet(hs, ContentLengthKey)
        parsed == ParseInt(length.value)
        n      == parsed.n
        empty  == [blocks |-> FALSE, body |-> <<>>, rest |-> bytes]
    IN  IF ~length.found \/ length.value = <<>> THEN empty
        ELSE IF ~parsed.ok THEN empty
        ELSE IF n < 0
        THEN [blocks |-> open, body |-> bytes, rest |-> <<>>]
        ELSE [blocks |-> open /\ Len(bytes) < n,
              body   |-> SubSeq(bytes, 1, Min(n, Len(bytes))),
              rest   |-> SubSeq(bytes, Min(n, Len(bytes)) + 1, Len(bytes))]

\* body = self._read_body()
ReadBody ==
    /\ pc = "read_body"
    /\ LET r == ReadBodyResult(headers, rfile, clientOpen)
       IN  /\ ~r.blocks
           /\ body' = r.body
           /\ rfile' = r.rest
    /\ events' = Append(events, "body_read")
    /\ pc' = NextPc(pc)
    /\ UNCHANGED <<reqVars, close_connection, connCount, clientOpen, log, conn, forward_headers,
                   upstreamReqs, resp, upRemaining, relayVars, exc>>

----------------------------------------------------------------------------
(* The log trace. *)

LogLine(k, n, t, c) == [kind |-> k, name |-> n, text |-> t, code |-> c]

\* for k, v in self.headers.items(): write k: _redact_header(k, v)
LogHeaders(hs) ==
    [i \in DOMAIN hs |->
        LogLine("header", hs[i].name, RedactHeader(hs[i].name, hs[i].value), 0)]

\* The trace of one request.
LogTrace(c, p, hs, b) ==
    <<LogLine("begin", <<>>, <<>>, 0), LogLine("request", <<c>>, p, 0)>>
    \o LogHeaders(hs)
    \o (IF b # <<>>
        THEN <<LogLine("body", <<>>, TryPrettyJson(b), 0)>>
        ELSE <<LogLine("no_body", <<>>, <<>>, 0)>>)
    \o <<LogLine("end", <<>>, <<>>, 0)>>

LogRequest ==
    /\ pc = "log"
    /\ log' = log \o LogTrace(command, path, headers, body)
    /\ events' = Append(events, "log_written")
    /\ pc' = NextPc(pc)
    /\ UNCHANGED <<reqVars, close_connection, connCount, rfile, clientOpen, body, conn, forward_headers,
                   upstreamReqs, resp, upRemaining, relayVars, exc>>

----------------------------------------------------------------------------
(* The upstream exchange. *)

\* A connection taken from those made before, when there is one.
ReuseConn(n) == IF n = 0 THEN 1 ELSE n

\* The number of the object HTTPSConnection(...) makes: a new one each time.
NewConn(n) == n + 1

\* conn = HTTPSConnection(...): the object, not yet connected
Connect ==
    /\ pc = "connect"
    /\ conn' = "created"
    /\ connCount' = NewConn(connCount)
    /\ pc' = NextPc(pc)
    /\ UNCHANGED <<reqVars, close_connection, rfile, clientOpen, body, log, forward_headers,
                   upstreamReqs, resp, upRemaining, relayVars, exc, events>>

\* A dict kept from one relay to the next.
NewDictShared == forward_headers

\* forward_headers = {}
NewDict == <<>>

BuildHeaders ==
    /\ pc = "build_headers"
    /\ forward_headers' = ForwardHeadersFrom(NewDict, headers, upstream_host)
    /\ pc' = NextPc(pc)
    /\ UNCHANGED <<reqVars, close_connection, connCount, rfile, clientOpen, body, log, conn,
                   upstreamReqs, resp, upRemaining, relayVars, exc, events>>

\* A body argument that is always the captured bytes, never None.
BodyArgAlways(b) == [present |-> TRUE, bytes |-> b]

\* body=body if body else None
BodyArg(b) == [present |-> b # <<>>, bytes |-> b]

\* conn.request(...) connects and sends the request
Request ==
    /\ pc = "request"
    /\ conn' = "open"
    /\ upstreamReqs' = Append(upstreamReqs,
                              [method  |-> command,
                               path    |-> path,
                               body    |-> BodyArg(body),
                               headers |-> forward_headers,
                               to      |-> [host |-> upstream_host,
                                            port |-> upstream_port],
                               req     |-> reqCount,
                               conn    |-> connCount])
    /\ events' = Append(events, "upstream_request")
    /\ pc' = NextPc(pc)
    /\ UNCHANGED <<reqVars, close_connection, connCount, rfile, clientOpen, body, log, forward_headers,
                   resp, upRemaining, relayVars, exc>>

\* conn.request(...) raises: the connection could not be made
RequestFail ==
    /\ pc = "request"
    /\ exc' = "OSError"
    /\ pc' = "raised"
    /\ UNCHANGED <<reqVars, close_connection, connCount, rfile, clientOpen, body, log, conn,
                   forward_headers, upstreamReqs, resp, upRemaining,
                   relayVars, events>>

\* resp = conn.getresponse()
GetResponse(R) ==
    /\ pc = "getresponse"
    /\ \E r \in R :
          /\ resp' = [line |-> r.line, headers |-> r.headers]
          /\ upRemaining' = r.len
    /\ events' = Append(events, "upstream_response")
    /\ pc' = NextPc(pc)
    /\ UNCHANGED <<reqVars, close_connection, connCount, rfile, clientOpen, body, log, conn,
                   forward_headers, upstreamReqs, relayVars, exc>>

\* conn.getresponse() raises (timeout, reset, bad status line); http.client
\* closes the connection on a connection error and leaves it on a timeout
GetResponseFail ==
    /\ pc = "getresponse"
    /\ conn' \in {"open", "closed"}
    /\ exc' = "OSError"
    /\ pc' = "raised"
    /\ UNCHANGED <<reqVars, close_connection, connCount, rfile, clientOpen, body, log, forward_headers,
                   upstreamReqs, resp, upRemaining, relayVars, events>>

----------------------------------------------------------------------------
(* The response status line and headers. *)

\* What self.send_header(k, v) of the handler base class does to
\* close_connection: a Connection header of close sets it, one of
\* keep-alive clears it.
CloseAfterSendHeader(cc, h) ==
    IF Lower(h.name) # Lower(ConnectionKey) THEN cc
    ELSE IF Lower(h.value) = CloseWord THEN TRUE
    ELSE IF Lower(h.value) = KeepAliveWord THEN FALSE
    ELSE cc

RECURSIVE CloseAfterHeaders(_, _)
\* close_connection after send_header of each line of hs, in order.
CloseAfterHeaders(cc, hs) ==
    IF hs = <<>> THEN cc
    ELSE CloseAfterHeaders(CloseAfterSendHeader(cc, Head(hs)), Tail(hs))

\* The headers send_response adds itself.
ServerHeaders ==
    << Hdr(<<"S","e","r","v","e","r">>, <<>>), Hdr(<<"D","a","t","e">>, <<>>) >>

\* self.send_response(resp.status, resp.reason): buffers the status line,
\* Server and Date, and writes the access line through log_message
SendResponse ==
    /\ pc = "send_response"
    /\ clientStatus' = resp.line
    /\ clientHdrs' = ServerHeaders
    /\ log' = Append(log, LogLine("access", <<command>>, path, resp.line.status))
    /\ pc' = NextPc(pc)
    /\ UNCHANGED <<reqVars, close_connection, connCount, rfile, clientOpen, body, conn, forward_headers,
                   upstreamReqs, resp, upRemaining, headersSent, chunk,
                   readSeq, written, flushed, shortReads, loopExit, exc,
                   events>>

\* resp_headers = resp.getheaders(); the copy loop
SendHeaders ==
    /\ pc = "send_headers"
    /\ clientHdrs' = clientHdrs \o CopyRespHeaders(resp.headers)
    /\ close_connection' =
          CloseAfterHeaders(close_connection, CopyRespHeaders(resp.headers))
    /\ pc' = NextPc(pc)
    /\ UNCHANGED <<reqVars, connCount, rfile, clientOpen, body, log, conn,
                   forward_headers, upstreamReqs, resp, upRemaining,
                   clientStatus, headersSent, chunk, readSeq, written,
                   flushed, shortReads, loopExit, exc, events>>

\* self.end_headers(): the buffered status line and headers go to the client
EndHeaders ==
    /\ pc = "end_headers"
    /\ headersSent' = TRUE
    /\ events' = Append(events, "client_bytes")
    /\ pc' = NextPc(pc)
    /\ UNCHANGED <<reqVars, close_connection, connCount, rfile, clientOpen, body, log, conn,
                   forward_headers, upstreamReqs, resp, upRemaining,
                   clientStatus, clientHdrs, chunk, readSeq, written,
                   flushed, shortReads, loopExit, exc>>

\* self.end_headers() raises: the client is gone
EndHeadersFail ==
    /\ pc = "end_headers"
    /\ ~clientOpen
    /\ \E e \in {"BrokenPipeError", "ConnectionResetError"} : exc' = e
    /\ pc' = "raised"
    /\ UNCHANGED <<reqVars, close_connection, connCount, rfile, clientOpen, body, log, conn,
                   forward_headers, upstreamReqs, resp, upRemaining,
                   relayVars, events>>

----------------------------------------------------------------------------
(* The streaming loop. *)

\* The amt given to resp.read
ReadAmt == ChunkSize

\* What resp.read(amt) may return with rem bytes of body left: nothing at
\* end of stream, else amt bytes or all that is left, or fewer.
ReadSizes(amt, rem, short) ==
    IF rem = 0 THEN {0}
    ELSE {Min(amt, rem)}
         \cup (IF short < MaxShortReads
               THEN {k \in {1, ChunkSize \div 2} : k < Min(amt, rem)}
               ELSE {})

\* The position of the next unread byte of the upstream body.
UpOffset == IF readSeq = <<>> THEN 0
            ELSE readSeq[Len(readSeq)].off + readSeq[Len(readSeq)].len

\* chunk = resp.read(8192); if not chunk: break
Read ==
    /\ pc = "read"
    /\ \E n \in ReadSizes(ReadAmt, upRemaining, shortReads) :
          /\ chunk' = [off |-> UpOffset, len |-> n]
          /\ upRemaining' = upRemaining - n
          /\ shortReads' = IF n > 0 /\ n < Min(ReadAmt, upRemaining)
                           THEN shortReads + 1 ELSE shortReads
          /\ IF n = 0
             THEN /\ loopExit' = "eof"
                  /\ pc' = AfterLoop
                  /\ readSeq' = readSeq
             ELSE /\ loopExit' = loopExit
                  /\ pc' = NextPc(pc)
                  /\ readSeq' = Append(readSeq, chunk')
    /\ UNCHANGED <<reqVars, close_connection, connCount, rfile, clientOpen, body, log, conn,
                   forward_headers, upstreamReqs, resp, clientStatus,
                   clientHdrs, headersSent, written, flushed, exc, events>>

\* resp.read(8192) raises (timeout, reset, incomplete read)
ReadFail ==
    /\ pc = "read"
    /\ upRemaining > 0
    /\ exc' = "OSError"
    /\ loopExit' = "upstream_error"
    /\ pc' = "raised"
    /\ UNCHANGED <<reqVars, close_connection, connCount, rfile, clientOpen, body, log, conn,
                   forward_headers, upstreamReqs, resp, upRemaining,
                   clientStatus, clientHdrs, headersSent, chunk, readSeq,
                   written, flushed, shortReads, events>>

\* A write that hands the chunk over twice.
WriteChunkTwice(w, c) == Append(Append(w, c), c)

\* What self.wfile.write(chunk) hands to the client stream.
WriteChunk(w, c) == Append(w, c)

\* self.wfile.write(chunk).  Once the client is gone a write may still be
\* accepted by the socket.
Write ==
    /\ pc = "write"
    /\ written' = WriteChunk(written, chunk)
    /\ events' = Append(events, "client_bytes")
    /\ pc' = NextPc(pc)
    /\ UNCHANGED <<reqVars, close_connection, connCount, rfile, clientOpen, body, log, conn,
                   forward_headers, upstreamReqs, resp, upRemaining,
                   clientStatus, clientHdrs, headersSent, chunk, readSeq,
                   flushed, shortReads, loopExit, exc>>

\* self.wfile.write(chunk) raises: the client is gone.  The call is outside
\* the try, so the exception leaves _forward.
WriteFail ==
    /\ pc = "write"
    /\ ~clientOpen
    /\ \E e \in {"BrokenPipeError", "ConnectionResetError"} : exc' = e
    /\ loopExit' = "client_disconnect"
    /\ pc' = "raised"
    /\ UNCHANGED <<reqVars, close_connection, connCount, rfile, clientOpen, body, log, conn,
                   forward_headers, upstreamReqs, resp, upRemaining,
                   clientStatus, clientHdrs, headersSent, chunk, readSeq,
                   written, flushed, shortReads, events>>

\* self.wfile.flush()
Flush ==
    /\ pc = "flush"
    /\ flushed' = Len(written)
    /\ pc' = NextPc(pc)
    /\ UNCHANGED <<reqVars, close_connection, connCount, rfile, clientOpen, body, log, conn,
                   forward_headers, upstreamReqs, resp, upRemaining,
                   clientStatus, clientHdrs, headersSent, chunk, readSeq,
                   written, shortReads, loopExit, exc, events>>

\* self.wfile.flush() raises BrokenPipeError: except BrokenPipeError: break
FlushBrokenPipe ==
    /\ pc = "flush"
    /\ ~clientOpen
    /\ loopExit' = "client_disconnect"
    /\ pc' = AfterLoop
    /\ UNCHANGED <<reqVars, close_connection, connCount, rfile, clientOpen, body, log, conn,
                   forward_headers, upstreamReqs, resp, upRemaining,
                   clientStatus, clientHdrs, headersSent, chunk, readSeq,
                   written, flushed, shortReads, exc, events>>

\* self.wfile.flush() raises ConnectionResetError, which the except clause
\* does not name
FlushReset ==
    /\ pc = "flush"
    /\ ~clientOpen
    /\ exc' = "ConnectionResetError"
    /\ loopExit' = "client_disconnect"
    /\ pc' = "raised"
    /\ UNCHANGED <<reqVars, close_connection, connCount, rfile, clientOpen, body, log, conn,
                   forward_headers, upstreamReqs, resp, upRemaining,
                   clientStatus, clientHdrs, headersSent, chunk, readSeq,
                   written, flushed, shortReads, events>>

\* conn.close()
Close ==
    /\ pc = "close"
    /\ conn' = "closed"
    /\ pc' = NextPc(pc)
    /\ UNCHANGED <<reqVars, close_connection, connCount, rfile, clientOpen, body, log, forward_headers,
                   upstreamReqs, resp, upRemaining, relayVars, exc, events>>

----------------------------------------------------------------------------
(* The environment and the specifications. *)

\* The client closes or resets its connection while the relay runs.
ClientDisconnect ==
    /\ clientOpen
    /\ pc \notin {"idle", "dispatch", "done", "raised", "conn_closed"}
    /\ clientOpen' = FALSE
    /\ events' = Append(events, "client_gone")
    /\ UNCHANGED <<pc, reqVars, close_connection, connCount, rfile, body, log, conn, forward_headers,
                   upstreamReqs, resp, upRemaining, relayVars, exc>>

\* The statements of _forward, each with its outcomes.
Statement ==
    \/ ReadBody
    \/ LogRequest
    \/ Connect
    \/ BuildHeaders
    \/ Request
    \/ RequestFail
    \/ GetResponseFail
    \/ SendResponse
    \/ SendHeaders
    \/ EndHeaders
    \/ EndHeadersFail
    \/ Read
    \/ ReadFail
    \/ Write
    \/ WriteFail
    \/ Flush
    \/ FlushBrokenPipe
    \/ FlushReset
    \/ Close

Handler == Statement \/ ClientDisconnect

Next == Handler \/ GetResponse(Responses)

NextHdr == Handler \/ GetResponse(FewResponses)

NextResp == Handler \/ GetResponse(HeaderResponses)

NextFrame == Handler \/ GetResponse(FrameResponses)

\* One relay of a sample request, with every upstream body length.
Spec == Init /\ [][Next]_vars

\* One relay of every inbound header list, with one upstream response.
SpecHdr == InitHdr /\ [][NextHdr]_vars

\* One relay of one request, with every upstream response header list.
SpecResp == InitResp /\ [][NextResp]_vars

\* One relay of a request that keeps or closes the connection, with every
\* list of upstream framing headers.
SpecFrame == InitFrame /\ [][NextFrame]_vars

\* One relay of one request with every upstream body length, in which the
\* handler thread keeps running: whenever its next statement can run, it
\* runs in the end, with one of its outcomes.
SpecLive ==
    /\ InitResp
    /\ [][Next]_vars
    /\ WF_vars(Statement \/ GetResponse(Responses))

\* One relay of every Content-Length line and request body, with one
\* upstream response.
SpecBody == InitBody /\ [][NextHdr]_vars

----------------------------------------------------------------------------
(* main. *)

\* The relay state of the first connection.
relay1Vars == <<pc, command, path, headers, rfile, clientOpen, body, conn,
                forward_headers, upstreamReqs, resp, upRemaining, relayVars,
                exc, events, close_connection, connVars, connCount>>

\* raise SystemExit(message), or an exception that leaves main: the
\* process ends with status 1
MainExit ==
    /\ mainPc' = "exited"
    /\ exitCode' = 1

\* if u.scheme != "https": raise SystemExit(...)
MainCheckScheme ==
    /\ mainPc = "check_scheme"
    /\ IF SchemeOk(args.upstream.scheme)
       THEN mainPc' = "host_port" /\ exitCode' = exitCode
       ELSE MainExit
    /\ UNCHANGED <<args, main_host, main_port, listener, upstream_host,
                   upstream_port, log, other, relay1Vars>>

\* host = u.hostname; port = u.port or 443.  u.port raises ValueError for
\* a port that is no number in range.
MainHostPort ==
    /\ mainPc = "host_port"
    /\ main_host' = args.upstream.hostname
    /\ IF args.upstream.port.kind = "invalid"
       THEN MainExit /\ main_port' = main_port
       ELSE /\ main_port' = PortOr(args.upstream.port, DefaultPort)
            /\ mainPc' = "check_host"
            /\ exitCode' = exitCode
    /\ UNCHANGED <<args, listener, upstream_host, upstream_port, log, other,
                   relay1Vars>>

\* if not host: raise SystemExit(...)
MainCheckHost ==
    /\ mainPc = "check_host"
    /\ IF main_host = <<>>
       THEN MainExit
       ELSE mainPc' = "configure" /\ exitCode' = exitCode
    /\ UNCHANGED <<args, main_host, main_port, listener, upstream_host,
                   upstream_port, log, other, relay1Vars>>

\* TapProxyHandler.upstream_host = host; TapProxyHandler.upstream_port = port
MainConfigure ==
    /\ mainPc = "configure"
    /\ upstream_host' = main_host
    /\ upstream_port' = main_port
    /\ mainPc' = "bind"
    /\ UNCHANGED <<args, main_host, main_port, listener, exitCode, log, other,
                   relay1Vars>>

\* httpd = ThreadingHTTPServer(("127.0.0.1", args.port), TapProxyHandler)
MainBind ==
    /\ mainPc = "bind"
    /\ listener' = [host |-> BindAddress, port |-> args.port]
    /\ mainPc' = "announce"
    /\ UNCHANGED <<args, main_host, main_port, exitCode, upstream_host,
                   upstream_port, log, other, relay1Vars>>

\* The bind fails (the port is taken): OSError leaves main.
MainBindFail ==
    /\ mainPc = "bind"
    /\ MainExit
    /\ UNCHANGED <<args, main_host, main_port, listener, upstream_host,
                   upstream_port, log, other, relay1Vars>>

\* The line on stderr, then httpd.serve_forever()
MainServe ==
    /\ mainPc = "announce"
    /\ log' = Append(log, LogLine("listening", <<>>, upstream_host, args.port))
    /\ mainPc' = "serve"
    /\ UNCHANGED <<args, main_host, main_port, listener, exitCode,
                   upstream_host, upstream_port, other, relay1Vars>>

Main ==
    \/ MainCheckScheme
    \/ MainHostPort
    \/ MainCheckHost
    \/ MainConfigure
    \/ MainBind
    \/ MainBindFail
    \/ MainServe

----------------------------------------------------------------------------
(* The server layer around _forward on the first connection: the handler   *)
(* base class reads requests off the connection for as long as it is kept, *)
(* and the threading server deals with what a handler raises.              *)

\* The server layer reads the next request off the connection: the first
\* one, or a further one once the relay before it has returned and the
\* connection is kept.
ReceiveRequest(Q) ==
    /\ mainPc = "serve"
    /\ \/ pc = "idle"
       \/ pc = "done" /\ ~close_connection /\ rfile = <<>>
    /\ clientOpen
    /\ reqCount < MaxRequests
    /\ \E r \in Q :
          /\ command' = r.command
          /\ headers' = r.headers
          /\ rfile' = r.rfile
          /\ clientSent' = Append(clientSent, r)
          /\ close_connection' = CloseAfterParse(r.headers)
    /\ reqCount' = reqCount + 1
    /\ pc' = "dispatch"
    /\ UNCHANGED <<path, upstream_host, srvVars, relayed, other, clientOpen,
                   body, log, conn, forward_headers, upstreamReqs, resp,
                   upRemaining, relayVars, exc, events, connCount>>

\* do_GET and do_POST: self._forward(), with fresh locals
Dispatch ==
    /\ pc = "dispatch"
    /\ command \in {"GET", "POST"}
    /\ relayed' = Append(relayed, reqCount)
    /\ pc' = "read_body"
    /\ body' = <<>>
    /\ conn' = "none"
    /\ resp' = NoResp
    /\ upRemaining' = 0
    /\ clientStatus' = NoResp.line
    /\ clientHdrs' = <<>>
    /\ headersSent' = FALSE
    /\ chunk' = NoChunk
    /\ readSeq' = <<>>
    /\ written' = <<>>
    /\ flushed' = 0
    /\ shortReads' = 0
    /\ loopExit' = "none"
    /\ exc' = "none"
    /\ events' = <<>>
    /\ UNCHANGED <<command, path, headers, rfile, clientOpen, upstream_host,
                   srvVars, reqCount, clientSent, other, log,
                   forward_headers, upstreamReqs, close_connection,
                   connCount>>

\* The relay has returned, the connection is kept, and bytes the relay did
\* not read are still in rfile: the server layer reads them as the request
\* line of a further request.  Over the bytes of the model that line is no
\* request line, so the answer is an error 400 and the connection closes.
ParseLeftover ==
    /\ pc = "done"
    /\ ~close_connection
    /\ rfile # <<>>
    /\ events' = Append(events, "body_as_request")
    /\ rfile' = <<>>
    /\ close_connection' = TRUE
    /\ log' = Append(log, LogLine("error", <<>>, <<>>, 400))
    /\ pc' = "conn_closed"
    /\ UNCHANGED <<command, path, headers, clientOpen, upstream_host, srvVars,
                   connVars, other, body, conn, forward_headers,
                   upstreamReqs, resp, upRemaining, relayVars, exc,
                   connCount>>

\* The relay has returned and close_connection is set: the server layer
\* closes the client connection.
ServerClose ==
    /\ pc = "done"
    /\ close_connection
    /\ pc' = "conn_closed"
    /\ UNCHANGED <<reqVars, close_connection, connCount, rfile, clientOpen,
                   body, log, conn, forward_headers, upstreamReqs, resp,
                   upRemaining, relayVars, exc, events>>

\* The relay has returned, the connection is kept, and the client ends it
\* instead of sending a further request.
ClientEnds ==
    /\ pc = "done"
    /\ ~close_connection
    /\ rfile = <<>>
    /\ clientOpen' = FALSE
    /\ pc' = "conn_closed"
    /\ UNCHANGED <<reqVars, close_connection, connCount, rfile, body, log,
                   conn, forward_headers, upstreamReqs, resp, upRemaining,
                   relayVars, exc, events>>

\* An exception left the handler: the threading server writes the
\* traceback to stderr and closes the client connection; the thread ends.
HandleError ==
    /\ pc = "raised"
    /\ log' = Append(log, LogLine("traceback", <<exc>>, <<>>, 0))
    /\ pc' = "conn_closed"
    /\ UNCHANGED <<reqVars, close_connection, connCount, rfile, clientOpen,
                   body, conn, forward_headers, upstreamReqs, resp,
                   upRemaining, relayVars, exc, events>>

ServerLayer ==
    \/ Dispatch
    \/ ParseLeftover
    \/ ServerClose
    \/ ClientEnds
    \/ HandleError

----------------------------------------------------------------------------
(* The relay on the second connection, in larger steps. *)

\* The connection is accepted, its request read, and _forward runs up to
\* the end of the log trace.
OtherCapture ==
    /\ mainPc = "serve"
    /\ other.pc = "idle"
    /\ \E hs \in OtherRequests :
          /\ other' = [other EXCEPT !.pc = "captured", !.headers = hs]
          /\ log' = log \o LogTrace("GET", path, hs, <<>>)
    /\ UNCHANGED <<srvVars, upstream_host, relay1Vars>>

\* conn = HTTPSConnection(...), the forwarded headers, conn.request(...)
OtherRequest ==
    /\ other.pc = "captured"
    /\ other' = [other EXCEPT
                    !.pc = "requested",
                    !.forward_headers =
                        ForwardHeadersFrom(NewDict, other.headers, upstream_host),
                    !.conn = "open"]
    /\ UNCHANGED <<srvVars, upstream_host, log, relay1Vars>>

\* conn.request(...) raises
OtherRequestFail ==
    /\ other.pc = "captured"
    /\ other' = [other EXCEPT !.pc = "raised", !.conn = "created"]
    /\ UNCHANGED <<srvVars, upstream_host, log, relay1Vars>>

\* conn.getresponse() and the relay of the response to its end
OtherRespond ==
    /\ other.pc = "requested"
    /\ other' = [other EXCEPT !.pc = "done", !.status = 200, !.conn = "closed"]
    /\ log' = Append(log, LogLine("access", <<"GET">>, path, 200))
    /\ UNCHANGED <<srvVars, upstream_host, relay1Vars>>

\* The server layer ends the second connection, after the return or after
\* the exception.
OtherEnd ==
    /\ other.pc \in {"done", "raised"}
    /\ other' = [other EXCEPT !.pc = "closed"]
    /\ log' = IF other.pc = "raised"
              THEN Append(log, LogLine("traceback", <<"OSError">>, <<>>, 0))
              ELSE log
    /\ UNCHANGED <<srvVars, upstream_host, relay1Vars>>

OtherRelay ==
    \/ OtherCapture
    \/ OtherRequest
    \/ OtherRequestFail
    \/ OtherRespond
    \/ OtherEnd

----------------------------------------------------------------------------
(* The whole program. *)

\* The state after urlparse(args.upstream) in main: the class attributes
\* have their defaults, nothing is bound, no connection is accepted.
InitServer ==
    /\ mainPc = "check_scheme"
    /\ args \in { [port |-> ListenPort, upstream |-> url] : url \in ParsedUrls }
    /\ main_host = <<>>
    /\ main_port = 0
    /\ listener = NoListener
    /\ exitCode = 0
    /\ upstream_host = <<>>
    /\ upstream_port = DefaultPort
    /\ pc = "idle"
    /\ command = ""
    /\ path \in Paths
    /\ headers = <<>>
    /\ rfile = <<>>
    /\ clientOpen = TRUE
    /\ body = <<>>
    /\ log = <<>>
    /\ conn = "none"
    /\ forward_headers = <<>>
    /\ upstreamReqs = <<>>
    /\ resp = NoResp
    /\ upRemaining = 0
    /\ clientStatus = NoResp.line
    /\ clientHdrs = <<>>
    /\ headersSent = FALSE
    /\ chunk = NoChunk
    /\ readSeq = <<>>
    /\ written = <<>>
    /\ flushed = 0
    /\ shortReads = 0
    /\ loopExit = "none"
    /\ exc = "none"
    /\ events = <<>>
    /\ close_connection = TRUE
    /\ reqCount = 0
    /\ clientSent = <<>>
    /\ relayed = <<>>
    /\ connCount = 0
    /\ other = IdleOther

NextServer ==
    \/ Main
    \/ ReceiveRequest(ServerRequests)
    \/ ServerLayer
    \/ Handler
    \/ GetResponse(ServerResponses)
    \/ OtherRelay

\* main, then the requests of one persistent connection relayed one after
\* the other while a second connection has its own relay.
SpecServer == InitServer /\ [][NextServer]_vars

----------------------------------------------------------------------------
(* The claims. *)

IsPrefix(a, b) == Len(a) <= Len(b) /\ SubSeq(b, 1, Len(a)) = a

\* The stages of _forward after the streaming loop.
LoopOver == pc \in {"close", "done"}

\* C1: within one relay the chunks written to the client are a prefix of
\* the non-empty chunks read from upstream, in the same order, and once the
\* loop is left without an exception the two sequences are equal.
C1_WrittenIsPrefixOfRead ==
    /\ IsPrefix(written, readSeq)
    /\ \A i \in DOMAIN readSeq : readSeq[i].len > 0
    /\ LoopOver => written = readSeq

\* A relay that ended at end of stream after writing several chunks.
C1_Witness ==
    pc = "done" /\ loopExit = "eof" /\ Len(written) >= 2 /\ written = readSeq

\* C2: every chunk read has at most 8192 bytes and is written and flushed
\* before the next read is issued; at most one chunk read is not yet
\* flushed to the client at any time.
C2_FlushedBeforeNextRead ==
    /\ \A i \in DOMAIN readSeq : readSeq[i].len <= 8192
    /\ Len(readSeq) - flushed <= 1
    /\ pc = "read" => flushed = Len(readSeq)

\* A read is about to be issued, with upstream body left, after a chunk was
\* flushed to the client.
C2_Witness ==
    pc = "read" /\ flushed >= 1 /\ upRemaining > 0 /\ flushed = Len(readSeq)

\* The client left after the response head had gone out to it, that is
\* during body streaming.
GoneWhileStreaming ==
    \E i \in DOMAIN events :
        /\ events[i] = "client_gone"
        /\ \E j \in 1..(i - 1) : events[j] = "client_bytes"

\* C3: when the client disconnects during body streaming and delivering a
\* chunk fails for it, in the write or in the flush, no exception leaves
\* _forward.
C3_ClientDisconnectIsSilent ==
    (GoneWhileStreaming /\ loopExit = "client_disconnect")
        => (exc = "none" /\ pc # "raised")

\* C4: once the streaming loop has ended, at end of stream or because the
\* client disconnected during streaming, and _forward is over, the
\* upstream connection is closed.
C4_UpstreamClosedAfterLoop ==
    /\ (loopExit = "eof" /\ pc \in {"done", "raised"}) => conn = "closed"
    /\ (GoneWhileStreaming /\ loopExit = "client_disconnect"
            /\ pc \in {"done", "raised"}) => conn = "closed"

\* The hop-by-hop names of C5.
C5_Names ==
    { <<"c","o","n","n","e","c","t","i","o","n">>,
      <<"k","e","e","p","-","a","l","i","v","e">>,
      <<"p","r","o","x","y","-","a","u","t","h","e","n","t","i","c","a","t","e">>,
      <<"p","r","o","x","y","-","a","u","t","h","o","r","i","z","a","t","i","o","n">>,
      <<"t","e">>,
      <<"t","r","a","i","l","e","r","s">>,
      <<"t","r","a","n","s","f","e","r","-","e","n","c","o","d","i","n","g">>,
      <<"u","p","g","r","a","d","e">> }

\* C5: the headers passed to the upstream request hold no header whose
\* lowercase name is a hop-by-hop name.
C5_NoHopByHopForwarded ==
    \A r \in DOMAIN upstreamReqs :
        \A j \in DOMAIN upstreamReqs[r].headers :
            Lower(upstreamReqs[r].headers[j].name) \notin C5_Names

\* A request went upstream whose inbound headers held a hop-by-hop name
\* written with capitals.
C5_Witness ==
    /\ upstreamReqs # <<>>
    /\ \E i \in DOMAIN headers :
          /\ Lower(headers[i].name) \in C5_Names
          /\ headers[i].name # Lower(headers[i].name)

HostLines(hs) == {j \in DOMAIN hs : Lower(hs[j].name) = <<"h","o","s","t">>}

\* C6: the headers passed to the upstream request hold exactly one header
\* whose lowercase name is host, and its value is the configured upstream
\* host.
C6_ExactlyOneHost ==
    \A r \in DOMAIN upstreamReqs :
        LET hs == upstreamReqs[r].headers
        IN  /\ Cardinality(HostLines(hs)) = 1
            /\ \A j \in HostLines(hs) : hs[j].value = upstream_host

\* A request went upstream whose inbound headers held Host twice, in two
\* casings.
C6_Witness ==
    /\ upstreamReqs # <<>>
    /\ \E i, j \in HostLines(headers) : headers[i].name # headers[j].name

\* The sensitive names of C7 and C8.
C7_Names ==
    { <<"a","u","t","h","o","r","i","z","a","t","i","o","n">>,
      <<"c","o","o","k","i","e">>,
      <<"s","e","t","-","c","o","o","k","i","e">> }

IsHeaderLine(l) == l.kind = "header"

LogHeaderLines == SelectSeq(log, IsHeaderLine)

\* C7: the log trace has one line per inbound header, in order; the line
\* of a header whose lowercase name is authorization, cookie or set-cookie
\* shows [REDACTED] and not the header's value, every other line shows the
\* value as it is.
C7_SensitiveRedactedInLog ==
    log # <<>> =>
        /\ Len(LogHeaderLines) = Len(headers)
        /\ \A i \in DOMAIN headers :
              /\ LogHeaderLines[i].name = headers[i].name
              /\ IF Lower(headers[i].name) \in C7_Names
                 THEN /\ LogHeaderLines[i].text = <<"[","R","E","D","A","C","T","E","D","]">>
                      /\ LogHeaderLines[i].text # headers[i].value
                 ELSE LogHeaderLines[i].text = headers[i].value

\* A logged request with a sensitive header written with capitals and a
\* header that is not sensitive.
C7_Witness ==
    /\ log # <<>>
    /\ \E i, j \in DOMAIN headers :
          /\ Lower(headers[i].name) \in C7_Names
          /\ headers[i].name # Lower(headers[i].name)
          /\ Lower(headers[j].name) \notin C7_Names

\* C8: the request that goes upstream after logging carries the original
\* value of every authorization, cookie and set-cookie header of the
\* inbound request, and the captured method, path and body.
C8_ForwardedCarriesOriginal ==
    \A r \in DOMAIN upstreamReqs :
        LET q == upstreamReqs[r]
        IN  /\ \A i \in DOMAIN headers :
                  Lower(headers[i].name) \in C7_Names =>
                      \E j \in DOMAIN q.headers : q.headers[j] = headers[i]
            /\ q.method = command
            /\ q.path = path
            /\ q.body.bytes = body

IsNotTransferEncoding(h) ==
    Lower(h.name) # <<"t","r","a","n","s","f","e","r","-","e","n","c","o","d","i","n","g">>

\* The header lines of the client-facing response that _forward copied.
CopiedHdrs == SubSeq(clientHdrs, Len(ServerHeaders) + 1, Len(clientHdrs))

\* C9: of the upstream response headers, none whose lowercase name is
\* transfer-encoding is in the client-facing response, and every other one
\* is, with its name and value, in upstream order.
C9_TransferEncodingNotCopied ==
    headersSent =>
        /\ \A j \in DOMAIN CopiedHdrs : IsNotTransferEncoding(CopiedHdrs[j])
        /\ CopiedHdrs = SelectSeq(resp.headers, IsNotTransferEncoding)

\* A response went to the client whose upstream headers held
\* Transfer-Encoding, written with capitals, and another header.
C9_Witness ==
    /\ headersSent
    /\ CopiedHdrs # <<>>
    /\ \E i \in DOMAIN resp.headers :
          /\ ~IsNotTransferEncoding(resp.headers[i])
          /\ resp.headers[i].name # Lower(resp.headers[i].name)

Before(a, b) ==
    \A i \in DOMAIN events :
        events[i] = b => \E j \in 1..(i - 1) : events[j] = a

\* C10: the body is read and the log trace is complete before the upstream
\* request is issued, and the upstream response headers are received
\* before anything is written to the client.
C10_CaptureBeforeUpstreamBeforeClient ==
    /\ Before("body_read", "upstream_request")
    /\ Before("log_written", "upstream_request")
    /\ upstreamReqs # <<>> => (log # <<>> /\ log[Len(log)].kind \in {"end", "access"})
    /\ Before("upstream_response", "client_bytes")
    /\ (headersSent \/ written # <<>>) => resp # NoResp

\* A relay that wrote the response head and a chunk to the client.
C10_Witness ==
    /\ pc = "done"
    /\ headersSent
    /\ written # <<>>
    /\ upstreamReqs # <<>>

\* The Content-Length line of the inbound request.
LengthLine == HeadersGet(headers, ContentLengthKey)

\* The inbound request has a Content-Length that is no valid non-negative
\* length: it is not a run of digits.
MalformedLength ==
    LengthLine.found /\ LengthLine.value # <<>> /\ ~AllDigits(LengthLine.value)

\* C12: when the Content-Length of the inbound request is malformed,
\* non-numeric or negative, _read_body does not block on the client and
\* returns an empty body, no exception is raised by it, and the request
\* that goes upstream has no body.
C12_MalformedLengthMeansNoBody ==
    MalformedLength =>
        /\ pc = "read_body" => ~ReadBodyResult(headers, rfile, clientOpen).blocks
        /\ body = <<>>
        /\ \A r \in DOMAIN upstreamReqs : ~upstreamReqs[r].body.present

\* The inbound request has no Content-Length, or one of zero.
NoLength ==
    \/ ~LengthLine.found
    \/ AllDigits(LengthLine.value) /\ DigitsValue(LengthLine.value) = 0

IsBodyLine(l) == l.kind = "body"

IsNoBodyLine(l) == l.kind = "no_body"

\* C13: when the inbound request has no Content-Length, or one of zero,
\* _read_body does not wait, the captured body is empty, the log trace has
\* the no-body marker and no body section, and the upstream request is
\* issued with None as its body; a captured body that is not empty is
\* logged as the body section and goes upstream byte for byte.
C13_EmptyBodyIsNone ==
    /\ NoLength =>
          /\ pc = "read_body" => ~ReadBodyResult(headers, rfile, clientOpen).blocks
          /\ body = <<>>
    /\ (log # <<>> /\ body = <<>>) =>
          /\ Len(SelectSeq(log, IsNoBodyLine)) = 1
          /\ SelectSeq(log, IsBodyLine) = <<>>
    /\ (log # <<>> /\ body # <<>>) =>
          /\ Len(SelectSeq(log, IsBodyLine)) = 1
          /\ SelectSeq(log, IsNoBodyLine) = <<>>
    /\ \A r \in DOMAIN upstreamReqs :
          IF body = <<>>
          THEN upstreamReqs[r].body = [present |-> FALSE, bytes |-> <<>>]
          ELSE upstreamReqs[r].body = [present |-> TRUE, bytes |-> body]

\* A request without a length went upstream although the client had sent
\* bytes after the header block.
C13_Witness ==
    /\ upstreamReqs # <<>>
    /\ NoLength
    /\ rfile # <<>>
    /\ log # <<>>

\* The inbound header lines that are neither hop-by-hop nor Host.
IsEndToEnd(h) ==
    Lower(h.name) \notin (C5_Names \cup {<<"h","o","s","t">>})

Occurrences(hs, h) == Cardinality({i \in DOMAIN hs : hs[i] = h})

\* C17: every inbound header line whose lowercase name is neither
\* hop-by-hop nor host is in the upstream request with the same name
\* casing and the same value, as often as it is in the inbound request.
C17_EveryOccurrenceForwarded ==
    \A r \in DOMAIN upstreamReqs :
        \A i \in DOMAIN headers :
            IsEndToEnd(headers[i]) =>
                Occurrences(upstreamReqs[r].headers, headers[i])
                    = Occurrences(headers, headers[i])

\* C20: the streaming loop goes on to a write only with a chunk that is
\* not empty and, with the client connected, is left only at a read of
\* zero bytes; after that read nothing more is read from upstream; and a
\* relay that is streaming comes to return from _forward unless the client
\* leaves or the upstream stream fails before its end.
C20_TerminatesAtEndOfStream ==
    /\ []((clientOpen /\ LoopOver) =>
            (loopExit = "eof" /\ chunk.len = 0 /\ upRemaining = 0))
    /\ [][(pc = "read" /\ pc' = "write") => chunk'.len > 0]_vars
    /\ [][loopExit = "eof" => UNCHANGED <<chunk, readSeq, upRemaining>>]_vars
    /\ (pc = "read") ~> (pc = "done" \/ ~clientOpen \/ exc # "none")

\* A relay that returned after a read of zero bytes, with several chunks
\* streamed and the client still connected.
C20_Witness ==
    /\ pc = "done"
    /\ clientOpen
    /\ loopExit = "eof"
    /\ Len(readSeq) >= 2
    /\ exc = "none"

\* The header lines the server layer adds to the response by itself.
OwnHdrs == SubSeq(clientHdrs, 1, Len(ServerHeaders))

IsFramingLine(h) ==
    Lower(h.name) \in { <<"c","o","n","t","e","n","t","-","l","e","n","g","t","h">>,
                        <<"t","r","a","n","s","f","e","r","-","e","n","c","o","d","i","n","g">> }

\* C18: a response delivered to its end is framed: the client-facing
\* response carries a Content-Length, or the server layer has added a
\* framing of its own, or the client connection is closed once the
\* handler returns.
C18_DeliveredResponseIsFramed ==
    (pc = "done" /\ loopExit = "eof") =>
        \/ \E j \in DOMAIN CopiedHdrs :
              Lower(CopiedHdrs[j].name)
                  = <<"c","o","n","t","e","n","t","-","l","e","n","g","t","h">>
        \/ \E j \in DOMAIN OwnHdrs : IsFramingLine(OwnHdrs[j])
        \/ close_connection

\* The upstream exchange failed: conn.request or conn.getresponse raised.
UpstreamExchangeFailed == exc = "OSError" /\ loopExit = "none"

\* The second relay's own exchange failed.
OtherFailed == other.pc = "raised"

\* C11: when the upstream exchange fails, nothing has gone and nothing
\* goes to the client, no status line and no byte; the step that fails
\* changes nothing of main, of the listener or of the relay on the other
\* connection, in either direction; the listener stays bound and serving,
\* and the relay on the other connection can still take its next step.
C11_UpstreamFailureIsConfined ==
    /\ [](UpstreamExchangeFailed =>
            /\ ~headersSent
            /\ written = <<>>
            /\ clientStatus = NoResp.line
            /\ clientHdrs = <<>>
            /\ mainPc = "serve"
            /\ listener = [host |-> BindAddress, port |-> args.port])
    /\ []((UpstreamExchangeFailed /\ other.pc \in {"idle", "captured", "requested"})
            => ENABLED OtherRelay)
    /\ []((OtherFailed /\ pc \in {"log", "connect", "build_headers", "request",
                                  "getresponse", "send_response", "read"})
            => ENABLED Statement)
    /\ [][(UpstreamExchangeFailed' /\ ~UpstreamExchangeFailed)
            => (other' = other /\ UNCHANGED srvVars)]_vars
    /\ [][(OtherFailed' /\ ~OtherFailed)
            => UNCHANGED <<relay1Vars, srvVars>>]_vars

\* The exchange of the first connection failed and its connection was
\* closed, and the relay on the other connection delivered its response.
C11_Witness ==
    /\ UpstreamExchangeFailed
    /\ pc = "conn_closed"
    /\ other.pc = "done"
    /\ other.status = 200

\* The upstream URL fails a check of main.
BadUpstream ==
    args.upstream.scheme # "https" \/ args.upstream.hostname = <<>>

\* C14: with an upstream URL whose scheme is not https or that has no
\* hostname, main never binds a listener and, once exited, has a non-zero
\* status; a listener is bound only after both checks passed, on
\* 127.0.0.1 and the given port, with the upstream host of the URL and its
\* port, 443 when the URL gives none.
C14_ListenerOnlyAfterChecks ==
    /\ BadUpstream =>
          /\ listener = NoListener
          /\ mainPc \in {"check_scheme", "host_port", "check_host", "exited"}
          /\ mainPc = "exited" => exitCode # 0
    /\ listener # NoListener =>
          /\ ~BadUpstream
          /\ listener = [host |-> "127.0.0.1", port |-> args.port]
          /\ upstream_host = args.upstream.hostname
          /\ args.upstream.port.kind = "none" => upstream_port = 443
          /\ (args.upstream.port.kind = "num" /\ args.upstream.port.n > 0)
                => upstream_port = args.upstream.port.n
    /\ mainPc = "exited" => exitCode # 0

\* main serves with an upstream URL that gave no port.
C14_Witness ==
    /\ mainPc = "serve"
    /\ listener # NoListener
    /\ args.upstream.port.kind = "none"
    /\ upstream_port = 443

\* The upstream request q carries, beside Host, only header lines of the
\* inbound request with the lines hs.
OnlyOwnHeaders(q, hs) ==
    \A j \in DOMAIN q :
        \/ q[j] = Hdr(<<"H","o","s","t">>, upstream_host)
        \/ \E i \in DOMAIN hs : hs[i] = q[j]

\* C15: the upstream host and port are written by main at start-up only;
\* no step changes both the relay state of one connection and that of the
\* other; and what a relay sends upstream is made of its own request only,
\* whatever the other relay and earlier relays did.
C15_RelaysShareNoState ==
    /\ [][(upstream_host' # upstream_host \/ upstream_port' # upstream_port)
            => mainPc = "configure"]_vars
    /\ [][mainPc = "serve" => UNCHANGED <<upstream_host, upstream_port>>]_vars
    /\ [][other' # other => UNCHANGED relay1Vars]_vars
    /\ [][relay1Vars' # relay1Vars => other' = other]_vars
    /\ [](\A r \in DOMAIN upstreamReqs :
            LET q == upstreamReqs[r]
            IN  /\ q.req \in DOMAIN clientSent
                /\ q.method = clientSent[q.req].command
                /\ OnlyOwnHeaders(q.headers, clientSent[q.req].headers))
    /\ [](OnlyOwnHeaders(other.forward_headers, other.headers))

\* Two requests of the first connection went upstream and the other
\* connection's request did too.
C15_Witness ==
    /\ Len(upstreamReqs) = 2
    /\ upstreamReqs[1].headers # upstreamReqs[2].headers
    /\ other.pc = "done"
    /\ pc = "done"

\* The stages of a relay after conn = HTTPSConnection(...).
AfterConnect ==
    pc \in {"build_headers", "request", "getresponse", "send_response",
            "send_headers", "end_headers", "read", "write", "flush", "close",
            "done"}

\* C16: a relay that has made its upstream connection has made exactly one
\* for its request, a new one; no two upstream requests are for the same
\* inbound request or on the same connection; and after an exception the
\* relay does nothing more.
C16_OneConnectionPerRequest ==
    /\ connCount <= reqCount
    /\ AfterConnect => connCount = reqCount
    /\ Len(upstreamReqs) <= reqCount
    /\ \A i, j \in DOMAIN upstreamReqs :
          i # j => /\ upstreamReqs[i].conn # upstreamReqs[j].conn
                   /\ upstreamReqs[i].req # upstreamReqs[j].req
    /\ exc # "none" => pc \in {"raised", "conn_closed"}

\* Two requests on one connection were relayed, the second to its end.
C16_Witness ==
    /\ reqCount = 2
    /\ Len(upstreamReqs) = 2
    /\ pc = "done"
    /\ conn = "closed"

\* C19: on one connection _forward is called once for each request the
\* client has sent, in their order, the server layer has read no more
\* requests than the client sent, and no byte of a request body is read
\* as the start of a further request.
C19_OneRelayPerRequestInOrder ==
    /\ relayed = [i \in 1..Len(relayed) |-> i]
    /\ reqCount = Len(clientSent)
    /\ Len(relayed) \in {reqCount - 1, reqCount}
    /\ pc \notin {"idle", "dispatch"} => Len(relayed) = reqCount
    /\ \A i \in DOMAIN events : events[i] # "body_as_request"

====
